---------------------------- MODULE Spec2Model ----------------------------
(***************************************************************************)
(* A model of crates/rust-project-goals/src/goal.rs: the status parser,    *)
(* the metadata and plan extractors, the ownership resolver on plan        *)
(* items, the goal-document loader and the issue linker.                   *)
(*                                                                         *)
(* Text is modelled as a sequence of one-character strings, so that        *)
(* trimming, splitting, substring search and the regular expressions are   *)
(* computed character by character as the code computes them.              *)
(***************************************************************************)
EXTENDS Naturals, Sequences, FiniteSets

VARIABLES
    value,            \* the string handed to Status::try_from
    status,           \* what Status::try_from returned
    plan_item,        \* a PlanItem
    returned,         \* the PlanItem method called and what it returned
    sections,         \* a parsed document: the Section list of markwaydown::parse
    extracted,        \* what extract_metadata / extract_plan_items returned
    visited,          \* goals_in_dir: how many files of the directory it has taken
    goal_documents,   \* goals_in_dir: the GoalDocuments collected so far
    dir_result,       \* goals_in_dir: its return value
    file,             \* the bytes of a goal file on disk
    documents,        \* the GoalDocuments in memory that were loaded from that file
    original,         \* the bytes of the file before any link_issue call
    linked            \* the link_issue calls made so far, and the last one

vars ==
    <<value, status, plan_item, returned, sections, extracted, visited,
      goal_documents, dir_result, file, documents, original, linked>>

(***************************************************************************)
(* Results and options                                                     *)
(***************************************************************************)
Pending ==
    [state |-> "pending"]

Ok(v) ==
    [state |-> "ok", val |-> v]

Err(m, a) ==
    [state |-> "err", msg |-> m, arg |-> a]

IsOk(r) ==
    r.state = "ok"

IsErr(r) ==
    r.state = "err"

IsPending(r) ==
    r.state = "pending"

Some(v) ==
    [some |-> TRUE, val |-> v]

None ==
    [some |-> FALSE]

Idle ==
    "idle"

(***************************************************************************)
(* Strings                                                                 *)
(***************************************************************************)
SeqsUpTo(S, n) ==
    UNION {[1..k -> S] : k \in 0..n}

WhiteSpace ==
    {" ", "\t", "\n"}

UpperCase ==
    {"A","B","C","D","E","F","G","H","I","J","K","L","M",
     "N","O","P","Q","R","S","T","U","V","W","X","Y","Z"}

LowerCase ==
    {"a","b","c","d","e","f","g","h","i","j","k","l","m",
     "n","o","p","q","r","s","t","u","v","w","x","y","z"}

Digit ==
    {"0","1","2","3","4","5","6","7","8","9"}

RECURSIVE trim_start(_)
trim_start(s) ==
    IF Len(s) > 0 /\ Head(s) \in WhiteSpace THEN trim_start(Tail(s)) ELSE s

RECURSIVE trim_end(_)
trim_end(s) ==
    IF Len(s) > 0 /\ s[Len(s)] \in WhiteSpace
    THEN trim_end(SubSeq(s, 1, Len(s) - 1))
    ELSE s

\* str::trim
trim(s) ==
    trim_end(trim_start(s))

\* pat occurs in s at position i
MatchesAt(s, pat, i) ==
    /\ i + Len(pat) - 1 <= Len(s)
    /\ \A k \in 1..Len(pat) : s[i + k - 1] = pat[k]

\* str::contains
contains(s, pat) ==
    \E i \in 1..(Len(s) + 1) : MatchesAt(s, pat, i)

\* str::split on the characters of seps: the pieces, empty ones included
RECURSIVE SplitFrom(_, _, _, _)
SplitFrom(s, seps, i, piece) ==
    IF i > Len(s) THEN <<piece>>
    ELSE IF s[i] \in seps
         THEN <<piece>> \o SplitFrom(s, seps, i + 1, <<>>)
         ELSE SplitFrom(s, seps, i + 1, Append(piece, s[i]))

split(s, seps) ==
    SplitFrom(s, seps, 1, <<>>)

\* the end of the longest run of characters of class that starts at i
RECURSIVE RunEnd(_, _, _)
RunEnd(s, class, i) ==
    IF i <= Len(s) /\ s[i] \in class THEN RunEnd(s, class, i + 1) ELSE i - 1

\* Regex::find_iter for a pattern "[class]+": the maximal runs, left to right
RECURSIVE FindRuns(_, _, _)
FindRuns(s, class, i) ==
    IF i > Len(s) THEN <<>>
    ELSE IF s[i] \in class
         THEN LET e == RunEnd(s, class, i)
              IN  <<SubSeq(s, i, e)>> \o FindRuns(s, class, e + 1)
         ELSE FindRuns(s, class, i + 1)

TRACKING_ISSUE_ROW ==
    <<"T","r","a","c","k","i","n","g"," ","i","s","s","u","e">>
POINT_OF_CONTACT_ROW ==
    <<"P","o","i","n","t"," ","o","f"," ","c","o","n","t","a","c","t">>
STATUS_ROW ==
    <<"S","t","a","t","u","s">>
SHORT_TITLE_ROW ==
    <<"S","h","o","r","t"," ","t","i","t","l","e">>
TEAMS_ROW ==
    <<"T","e","a","m","s">>
TASK_OWNERS_ROW ==
    <<"T","a","s","k"," ","o","w","n","e","r","s">>
METADATA_HEADER ==
    <<"M","e","t","a","d","a","t","a">>
TASK_HEADER ==
    <<"T","a","s","k">>
OWNERS_HEADER ==
    <<"O","w","n","e","r","(","s",")"," ","o","r"," ","t","e","a","m","(","s",")">>
NOTES_HEADER ==
    <<"N","o","t","e","s">>
OWNERSHIP_TITLE ==
    <<"O","w","n","e","r","s","h","i","p"," ","a","n","d"," ","t","e","a","m"," ","a","s","k","s">>
SUMMARY_TITLE ==
    <<"S","u","m","m","a","r","y">>
TEAM_MARKER ==
    <<"!","[","T","e","a","m","]">>
TEAM_TOKEN ==
    <<"T","e","a","m">>
FLAGSHIP ==
    <<"F","l","a","g","s","h","i","p">>
ACCEPTED ==
    <<"A","c","c","e","p","t","e","d">>
INVITED ==
    <<"I","n","v","i","t","e","d">>
PROPOSED ==
    <<"P","r","o","p","o","s","e","d">>
PROPOSED_FOR_FLAGSHIP ==
    <<"P","r","o","p","o","s","e","d"," ","f","o","r"," ","f","l","a","g","s","h","i","p">>
PROPOSED_FOR_MENTORSHIP ==
    <<"P","r","o","p","o","s","e","d"," ","f","o","r"," ","m","e","n","t","o","r","s","h","i","p">>
NOT_ACCEPTED ==
    <<"N","o","t"," ","a","c","c","e","p","t","e","d">>
TEAMS_WITH_ASKS_STR ==
    <<"<","!","-","-"," ","T","E","A","M","S"," ","W","I","T","H"," ","A","S","K","S"," ","-","-",">">>
TASK_OWNERS_STR ==
    <<"<","!","-","-"," ","T","A","S","K"," ","O","W","N","E","R","S"," ","-","-",">">>

(***************************************************************************)
(* Status (lines 279-381)                                                  *)
(***************************************************************************)
Status(flagship, acceptance, invited) ==
    [is_flagship |-> flagship, acceptance |-> acceptance, is_invited |-> invited]

\* the table of lines 303-360, in its order
valid_values ==
    << <<FLAGSHIP, Status(TRUE, "Accepted", FALSE)>>,
       <<ACCEPTED, Status(FALSE, "Accepted", FALSE)>>,
       <<INVITED, Status(FALSE, "Accepted", TRUE)>>,
       <<PROPOSED, Status(FALSE, "Proposed", FALSE)>>,
       <<PROPOSED_FOR_FLAGSHIP, Status(TRUE, "Proposed", FALSE)>>,
       <<PROPOSED_FOR_MENTORSHIP, Status(FALSE, "Proposed", TRUE)>>,
       <<NOT_ACCEPTED, Status(FALSE, "NotAccepted", FALSE)>> >>

\* the loop of lines 362-372 from entry i on
RECURSIVE MatchStatus(_, _)
MatchStatus(v, i) ==
    IF i > Len(valid_values) THEN Err("unrecognized status", v)
    ELSE IF v = valid_values[i][1] THEN Ok(valid_values[i][2])
    ELSE MatchStatus(v, i + 1)

\* Status::try_from comparing the string as given
Status_try_from_untrimmed(v) ==
    MatchStatus(v, 1)

\* impl TryFrom<&str> for Status
Status_try_from(v) ==
    MatchStatus(trim(v), 1)

\* is_not_not_accepted that holds of a rejected goal too
is_any_acceptance(st) ==
    st.acceptance \in {"Proposed", "Accepted", "NotAccepted"}

\* Status::is_not_not_accepted
is_not_not_accepted(st) ==
    st.acceptance # "NotAccepted"

(***************************************************************************)
(* The strings Status::try_from is applied to: the seven labels and other  *)
(* words, each between two runs of whitespace of at most MaxPad chars.     *)
(***************************************************************************)
MaxPad ==
    1

Labels ==
    {valid_values[i][1] : i \in 1..Len(valid_values)}

OtherWords ==
    {<<>>,
     <<"A","C","C","E","P","T","E","D">>,
     <<"A","c","c","e","p","t">>,
     <<"A","c","c","e","p","t","e","d","s">>,
     <<"C","o","m","p","l","e","t","e","d">>,
     <<"F","L","A","G","S","H","I","P">>,
     <<"F","l","a","g"," ","s","h","i","p">>,
     <<"I","N","V","I","T","E","D">>,
     <<"N","O","T"," ","A","C","C","E","P","T","E","D">>,
     <<"N","o","t"," ","A","c","c","e","p","t","e","d">>,
     <<"N","o","t","A","c","c","e","p","t","e","d">>,
     <<"P","R","O","P","O","S","E","D">>,
     <<"P","R","O","P","O","S","E","D"," ","F","O","R"," ","F","L","A","G","S","H","I","P">>,
     <<"P","R","O","P","O","S","E","D"," ","F","O","R"," ","M","E","N","T","O","R","S","H","I","P">>,
     <<"P","r","o","p","o","s","e","d","\t","f","o","r"," ","f","l","a","g","s","h","i","p">>,
     <<"P","r","o","p","o","s","e","d"," "," ","f","o","r"," ","f","l","a","g","s","h","i","p">>,
     <<"P","r","o","p","o","s","e","d"," ","f","o","r"," ","F","l","a","g","s","h","i","p">>,
     <<"a","c","c","e","p","t","e","d">>,
     <<"f","l","a","g","s","h","i","p">>,
     <<"i","n","v","i","t","e","d">>,
     <<"n","o","t"," ","a","c","c","e","p","t","e","d">>,
     <<"p","r","o","p","o","s","e","d">>,
     <<"p","r","o","p","o","s","e","d"," ","f","o","r"," ","f","l","a","g","s","h","i","p">>,
     <<"p","r","o","p","o","s","e","d"," ","f","o","r"," ","m","e","n","t","o","r","s","h","i","p">>}

Pads ==
    SeqsUpTo(WhiteSpace, MaxPad)

StatusInputs ==
    {l \o w \o r : l \in Pads, r \in Pads, w \in Labels \cup OtherWords}

StatusIdle ==
    value = Idle /\ status = Idle

ItemIdle ==
    plan_item = Idle /\ returned = Idle

ExtractIdle ==
    sections = Idle /\ extracted = Idle

DirIdle ==
    visited = Idle /\ goal_documents = Idle /\ dir_result = Idle

FileIdle ==
    file = Idle /\ documents = Idle /\ original = Idle /\ linked = Idle

InitStatus ==
    /\ value \in StatusInputs
    /\ status = Pending
    /\ ItemIdle /\ ExtractIdle /\ DirIdle /\ FileIdle

\* a call of Status::try_from(value)
TryFrom ==
    /\ IsPending(status)
    /\ status' = Status_try_from(value)
    /\ UNCHANGED <<value, plan_item, returned, sections, extracted, visited,
                   goal_documents, dir_result, file, documents, original, linked>>

NextStatus ==
    TryFrom

SpecStatus ==
    InitStatus /\ [][NextStatus]_vars


(***************************************************************************)
(* The team registry (crate::team) and the username pattern (crate::re)    *)
(***************************************************************************)
\* the names team::get_team_names knows
TeamRegistry ==
    {<<"l","a","n","g">>, <<"l","i","b","s","-","a","p","i">>, <<"c","o","m","p","i","l","e","r">>}

\* team::get_team_name: the team of that name, if there is one
get_team_name(name) ==
    IF name \in TeamRegistry THEN Some(name) ELSE None

\* the characters a username is made of after its "@"
UsernameChars ==
    {"-"} \cup UpperCase \cup LowerCase \cup Digit

\* where a match of re::USERNAME can start in s
UsernameStartsAt(s, i) ==
    /\ i < Len(s)
    /\ s[i] = "@"
    /\ s[i + 1] \in UsernameChars

\* Regex::captures(..).get(0) for re::USERNAME: its leftmost match in s
USERNAME_captures(s) ==
    IF \E i \in 1..Len(s) : UsernameStartsAt(s, i)
    THEN LET i == CHOOSE k \in 1..Len(s) :
                     /\ UsernameStartsAt(s, k)
                     /\ \A j \in 1..(k - 1) : ~UsernameStartsAt(s, j)
         IN  Some(SubSeq(s, i, RunEnd(s, UsernameChars, i + 1)))
    ELSE None

\* re::is_just(&re::USERNAME, s): s is one username and nothing else
is_just_USERNAME(s) ==
    LET m == USERNAME_captures(s) IN m.some /\ m.val = s

(***************************************************************************)
(* PlanItem (lines 571-726)                                                *)
(***************************************************************************)
PlanItem(text, owners, notes) ==
    [text |-> text, owners |-> owners, notes |-> notes]

\* PlanItem::is_team_ask
is_team_ask(item) ==
    contains(item.owners, TEAM_MARKER)

\* the character class of the pattern of line 710
IdentifierChars ==
    {"-", "."} \cup UpperCase \cup LowerCase

\* the character class of line 710 with the digits added
IdentifierCharsWithDigits ==
    IdentifierChars \cup Digit

\* extract_identifiers over letters, digits, "-" and "."
extract_identifiers_with_digits(s) ==
    FindRuns(s, IdentifierCharsWithDigits, 1)

\* extract_identifiers
extract_identifiers(s) ==
    FindRuns(s, IdentifierChars, 1)

\* extract_team_names
extract_team_names(s) ==
    SelectSeq(extract_identifiers(s), LAMBDA t : t # TEAM_TOKEN)

\* the loop of lines 606-616 over the names from i on, teams found so far
RECURSIVE LookupTeams(_, _, _)
LookupTeams(names, i, teams) ==
    IF i > Len(names) THEN Ok(teams)
    ELSE LET team == get_team_name(names[i])
         IN  IF team.some
             THEN LookupTeams(names, i + 1, Append(teams, team.val))
             ELSE Err("no Rust team named", names[i])

\* PlanItem::teams_being_asked
teams_being_asked(item) ==
    IF ~is_team_ask(item) THEN Ok(<<>>)
    ELSE LET teams == LookupTeams(extract_team_names(item.owners), 1, <<>>)
         IN  IF IsErr(teams) THEN teams
             ELSE IF teams.val = <<>>
                  THEN Err("team ask does not list any teams", item.text)
                  ELSE teams

\* the split, trim and filter of lines 632-636
comma_separated(text) ==
    LET pieces  == split(text, {","})
        trimmed == [i \in 1..Len(pieces) |-> trim(pieces[i])]
    IN  SelectSeq(trimmed, LAMBDA t : t # <<>>)

\* PlanItem::task_owners
task_owners(item) ==
    IF is_team_ask(item) THEN <<>> ELSE comma_separated(item.owners)

\* owner_usernames
owner_usernames(text) ==
    LET pieces  == split(text, WhiteSpace)
        matches == [i \in 1..Len(pieces) |-> USERNAME_captures(pieces[i])]
        found   == SelectSeq(matches, LAMBDA m : m.some)
    IN  [i \in 1..Len(found) |-> found[i].val]

TeamAsks(teams) ==
    [kind |-> "TeamAsks", list |-> teams]

Usernames(names) ==
    [kind |-> "Usernames", list |-> names]

\* PlanItem::parse_owners taking the usernames as task_owners does
parse_owners_by_commas(item) ==
    IF item.owners = <<>> THEN Ok(None)
    ELSE IF is_team_ask(item)
         THEN LET teams == teams_being_asked(item)
              IN  IF IsErr(teams) THEN teams ELSE Ok(Some(TeamAsks(teams.val)))
         ELSE Ok(Some(Usernames(comma_separated(item.owners))))

\* PlanItem::parse_owners
parse_owners(item) ==
    IF item.owners = <<>> THEN Ok(None)
    ELSE IF is_team_ask(item)
         THEN LET teams == teams_being_asked(item)
              IN  IF IsErr(teams) THEN teams ELSE Ok(Some(TeamAsks(teams.val)))
         ELSE Ok(Some(Usernames(owner_usernames(item.owners))))

(***************************************************************************)
(* The plan items the PlanItem methods are applied to: the owners cell is  *)
(* any concatenation of at most MaxChunks of these pieces of text.         *)
(***************************************************************************)
MaxChunks ==
    4

OwnerChunks ==
    {<<"!","[","T","e","a","m","]">>,
     <<"T","e","a","m">>,
     <<"l","a","n","g">>,
     <<"l","i","b","s","-","a","p","i">>,
     <<"2">>,
     <<" ">>,
     <<",">>,
     <<"@","a","l">>,
     <<".">>}

RECURSIVE Concat(_)
Concat(ss) ==
    IF ss = <<>> THEN <<>> ELSE Head(ss) \o Concat(Tail(ss))

OwnerTexts ==
    {Concat(cs) : cs \in SeqsUpTo(OwnerChunks, MaxChunks)}

STANDARD_REVIEWS ==
    <<"S","t","a","n","d","a","r","d"," ","r","e","v","i","e","w","s">>

Called(method, result) ==
    [method |-> method, result |-> result]

InitItem ==
    /\ plan_item \in {PlanItem(STANDARD_REVIEWS, o, <<>>) : o \in OwnerTexts}
    /\ returned = Called("none", Pending)
    /\ StatusIdle /\ ExtractIdle /\ DirIdle /\ FileIdle

ItemFrame ==
    UNCHANGED <<value, status, plan_item, sections, extracted, visited,
                goal_documents, dir_result, file, documents, original, linked>>

\* a call of plan_item.teams_being_asked()
CallTeamsBeingAsked ==
    /\ returned.method = "none"
    /\ returned' = Called("teams_being_asked", teams_being_asked(plan_item))
    /\ ItemFrame

\* a call of plan_item.parse_owners()
CallParseOwners ==
    /\ returned.method = "none"
    /\ returned' = Called("parse_owners", parse_owners(plan_item))
    /\ ItemFrame

\* a call of plan_item.task_owners()
CallTaskOwners ==
    /\ returned.method = "none"
    /\ returned' = Called("task_owners", Ok(task_owners(plan_item)))
    /\ ItemFrame

NextItem ==
    \/ CallTeamsBeingAsked
    \/ CallParseOwners
    \/ CallTaskOwners

SpecItem ==
    InitItem /\ [][NextItem]_vars

(***************************************************************************)
(* IssueId (crate::gh::issue_id): `org/repo#number`                        *)
(***************************************************************************)
IssueId(org, repo, number) ==
    [org |-> org, repo |-> repo, number |-> number]

DigitValue(c) ==
    CASE c = "0" -> 0 [] c = "1" -> 1 [] c = "2" -> 2 [] c = "3" -> 3
      [] c = "4" -> 4 [] c = "5" -> 5 [] c = "6" -> 6 [] c = "7" -> 7
      [] c = "8" -> 8 [] c = "9" -> 9

DigitChar(d) ==
    <<"0", "1", "2", "3", "4", "5", "6", "7", "8", "9">>[d + 1]

\* the number a string of decimal digits denotes
RECURSIVE ParseNumber(_)
ParseNumber(s) ==
    IF s = <<>> THEN 0
    ELSE 10 * ParseNumber(SubSeq(s, 1, Len(s) - 1)) + DigitValue(s[Len(s)])

\* the decimal digits of a number
RECURSIVE FormatNumber(_)
FormatNumber(n) ==
    IF n < 10 THEN <<DigitChar(n)>>
    ELSE Append(FormatNumber(n \div 10), DigitChar(n % 10))

\* impl FromStr for IssueId
IssueId_parse(s) ==
    LET slash == {i \in 1..Len(s) : s[i] = "/"}
        hash  == {i \in 1..Len(s) : s[i] = "#"}
    IN  IF Cardinality(slash) # 1 \/ Cardinality(hash) # 1
        THEN Err("invalid issue reference", s)
        ELSE LET i == CHOOSE k \in slash : TRUE
                 j == CHOOSE k \in hash : TRUE
             IN  IF /\ 1 < i
                    /\ i + 1 < j
                    /\ j < Len(s)
                    /\ \A k \in (j + 1)..Len(s) : s[k] \in Digit
                 THEN Ok(IssueId(SubSeq(s, 1, i - 1), SubSeq(s, i + 1, j - 1),
                                 ParseNumber(SubSeq(s, j + 1, Len(s)))))
                 ELSE Err("invalid issue reference", s)

\* impl Display for IssueId
IssueId_to_string(id) ==
    id.org \o <<"/">> \o id.repo \o <<"#">> \o FormatNumber(id.number)

(***************************************************************************)
(* Sections and tables (crate::markwaydown)                                *)
(***************************************************************************)
Span(start, end) ==
    [start |-> start, end |-> end]

\* a Table and the byte range of the file it was parsed from
Table(header, rows, span) ==
    [header |-> header, rows |-> rows, span |-> span]

Section(level, title, text, tables) ==
    [level |-> level, title |-> title, text |-> text, tables |-> tables]

\* rows.iter().find(|row| row[0] == key)
find_row(rows, key) ==
    IF \E i \in 1..Len(rows) : rows[i][1] = key
    THEN LET i == CHOOSE k \in 1..Len(rows) :
                     /\ rows[k][1] = key
                     /\ \A j \in 1..(k - 1) : rows[j][1] # key
         IN  Some(rows[i])
    ELSE None

\* expect_headers
expect_headers(table, expected) ==
    IF table.header # expected
    THEN Err("unexpected table header", table.header)
    ELSE Ok(<<>>)

(***************************************************************************)
(* Metadata (lines 42-54, 383-478)                                         *)
(***************************************************************************)
Metadata(title, short_title, pocs, st, tracking_issue, table) ==
    [title |-> title, short_title |-> short_title, pocs |-> pocs,
     status |-> st, tracking_issue |-> tracking_issue, table |-> table]

\* verify_row looking for the row and not at its value
verify_row_any_value(rows, key, expected) ==
    IF ~find_row(rows, key).some
    THEN Err("metadata table has no row", key)
    ELSE Ok(<<>>)

\* verify_row
verify_row(rows, key, expected) ==
    LET row == find_row(rows, key)
    IN  IF ~row.some THEN Err("metadata table has no row", key)
        ELSE IF row.val[2] # expected
             THEN Err("metadata table has incorrect row", key)
             ELSE Ok(<<>>)

\* lines 423-445 of extract_metadata: the tracking issue of the table
tracking_issue_of(rows, st) ==
    LET r == find_row(rows, TRACKING_ISSUE_ROW)
    IN  IF r.some
        THEN LET has_tracking_issue == r.val[2] # <<>>
             IN  IF st.acceptance = "Accepted" /\ ~has_tracking_issue
                 THEN Err("accepted goals cannot have an empty tracking issue", <<>>)
                 ELSE IF has_tracking_issue
                      THEN LET id == IssueId_parse(r.val[2])
                           IN  IF IsErr(id) THEN id ELSE Ok(Some(id.val))
                      ELSE Ok(None)
        ELSE Ok(None)

\* lines 447-461 of extract_metadata
metadata_of(title, table, st, issue) ==
    LET rows            == table.rows
        short_title_row == find_row(rows, SHORT_TITLE_ROW)
        poc_row         == find_row(rows, POINT_OF_CONTACT_ROW)
        teams           == verify_row(rows, TEAMS_ROW, TEAMS_WITH_ASKS_STR)
        task_owner_row  == verify_row(rows, TASK_OWNERS_ROW, TASK_OWNERS_STR)
    IN  IF IsErr(teams) THEN teams
        ELSE IF IsErr(task_owner_row) THEN task_owner_row
        ELSE Ok(Some(Metadata(title,
                              IF short_title_row.some
                              THEN short_title_row.val[2] ELSE title,
                              poc_row.val[2], st, issue, table)))

\* lines 398-461 of extract_metadata: the metadata of the first table
metadata_of_table(title, table) ==
    LET rows       == table.rows
        poc_row    == find_row(rows, POINT_OF_CONTACT_ROW)
        status_row == find_row(rows, STATUS_ROW)
        header     == expect_headers(table, <<METADATA_HEADER, <<>>>>)
    IN  IF IsErr(header) THEN header
        ELSE IF ~poc_row.some
        THEN Err("metadata table has no row", POINT_OF_CONTACT_ROW)
        ELSE IF ~is_just_USERNAME(trim(poc_row.val[2]))
        THEN Err("point of contact must be a single github username", poc_row.val[2])
        ELSE IF ~status_row.some
        THEN Err("metadata table has no row", STATUS_ROW)
        ELSE LET st == Status_try_from(status_row.val[2])
             IN  IF IsErr(st) THEN st
                 ELSE LET issue == tracking_issue_of(rows, st.val)
                      IN  IF IsErr(issue) THEN issue
                          ELSE metadata_of(title, table, st.val, issue.val)

\* extract_metadata failing on a first section without a table
extract_metadata_requiring_table(ss) ==
    IF ss = <<>> THEN Err("no markdown sections found in input", <<>>)
    ELSE IF ss[1].title = <<>> THEN Err("first section has no title", <<>>)
    ELSE IF ss[1].tables = <<>> THEN Err("no metadata table", <<>>)
    ELSE metadata_of_table(ss[1].title, ss[1].tables[1])

\* extract_metadata
extract_metadata(ss) ==
    IF ss = <<>> THEN Err("no markdown sections found in input", <<>>)
    ELSE IF ss[1].title = <<>> THEN Err("first section has no title", <<>>)
    ELSE IF ss[1].tables = <<>> THEN Ok(None)
    ELSE metadata_of_table(ss[1].title, ss[1].tables[1])

(***************************************************************************)
(* The first sections extract_metadata is applied to: a metadata table has *)
(* its rows in the customary order, each row absent or with one of a few   *)
(* values.                                                                 *)
(***************************************************************************)
NoSpan ==
    Span(0, 0)

TITLE ==
    <<"G","o","a","l">>

\* no row, or one row of that key with one of the values
RowChoices(key, values) ==
    {<<>>} \cup {<< <<key, v>> >> : v \in values}

ShortTitleChoices ==
    RowChoices(SHORT_TITLE_ROW, {<<"G">>})

PointOfContactChoices ==
    RowChoices(POINT_OF_CONTACT_ROW,
               {<<"@","a","l">>, <<" ","@","a","l">>, <<"a","l">>, <<"@","a","l"," ","@","b","o">>})

StatusChoices ==
    RowChoices(STATUS_ROW,
               {FLAGSHIP, ACCEPTED, INVITED, PROPOSED, NOT_ACCEPTED,
                <<"a","c","c","e","p","t","e","d">>})

TrackingIssueChoices ==
    RowChoices(TRACKING_ISSUE_ROW,
               {<<>>, <<"o","/","r","#","7">>, <<"o","/","r","#">>, <<"#","7">>})

TeamsChoices ==
    RowChoices(TEAMS_ROW, {TEAMS_WITH_ASKS_STR, <<"l","a","n","g">>})

TaskOwnersChoices ==
    RowChoices(TASK_OWNERS_ROW, {TASK_OWNERS_STR, <<"@","a","l">>})

MetadataRows ==
    {st \o poc \o s \o ti \o t \o o :
        st \in ShortTitleChoices, poc \in PointOfContactChoices,
        s \in StatusChoices, ti \in TrackingIssueChoices,
        t \in TeamsChoices, o \in TaskOwnersChoices}

MetadataTables ==
    {Table(h, rows, NoSpan) :
        h \in {<<METADATA_HEADER, <<>>>>, <<TASK_HEADER, <<>>>>},
        rows \in MetadataRows}

FirstSections ==
    {Section(1, title, <<>>, tables) :
        title \in {<<>>, TITLE},
        tables \in {<<>>} \cup {<<t>> : t \in MetadataTables}}

InitMeta ==
    /\ sections \in {<<>>} \cup {<<s>> : s \in FirstSections}
    /\ extracted = Called("none", Pending)
    /\ StatusIdle /\ ItemIdle /\ DirIdle /\ FileIdle

\* a call of extract_metadata(&sections)
CallExtractMetadata ==
    /\ extracted.method = "none"
    /\ extracted' = Called("extract_metadata", extract_metadata(sections))
    /\ UNCHANGED <<value, status, plan_item, returned, sections, visited,
                   goal_documents, dir_result, file, documents, original, linked>>

NextMeta ==
    CallExtractMetadata

SpecMeta ==
    InitMeta /\ [][NextMeta]_vars

(***************************************************************************)
(* GoalPlan (lines 56-64, 488-569)                                         *)
(***************************************************************************)
GoalPlan(subgoal, plan_items) ==
    [subgoal |-> subgoal, plan_items |-> plan_items]

\* extract_plan_item
extract_plan_item(row) ==
    PlanItem(row[1], row[2], row[3])

\* goal_plan
goal_plan(subgoal, section) ==
    IF Len(section.tables) = 0 THEN Ok(None)
    ELSE IF Len(section.tables) = 1
    THEN LET table  == section.tables[1]
             header == expect_headers(table, <<TASK_HEADER, OWNERS_HEADER, NOTES_HEADER>>)
         IN  IF IsErr(header) THEN header
             ELSE Ok(Some(GoalPlan(subgoal,
                                   [i \in 1..Len(table.rows) |->
                                       extract_plan_item(table.rows[i])])))
    ELSE Err("multiple goal tables in section", section.title)

\* the loop of lines 502-508 that also takes the sections of the same level
RECURSIVE subsection_plans_or_siblings(_, _, _, _)
subsection_plans_or_siblings(ss, i, level, goal_plans) ==
    IF i > Len(ss) \/ ~(ss[i].level >= level) THEN Ok(goal_plans)
    ELSE LET plan == goal_plan(Some(ss[i].title), ss[i])
         IN  IF IsErr(plan) THEN plan
             ELSE subsection_plans_or_siblings(ss, i + 1, level,
                      IF plan.val.some THEN Append(goal_plans, plan.val.val)
                      ELSE goal_plans)

\* the loop of lines 502-508 from section i on
RECURSIVE subsection_plans(_, _, _, _)
subsection_plans(ss, i, level, goal_plans) ==
    IF i > Len(ss) \/ ~(ss[i].level > level) THEN Ok(goal_plans)
    ELSE LET plan == goal_plan(Some(ss[i].title), ss[i])
         IN  IF IsErr(plan) THEN plan
             ELSE subsection_plans(ss, i + 1, level,
                      IF plan.val.some THEN Append(goal_plans, plan.val.val)
                      ELSE goal_plans)

\* extract_plan_items
extract_plan_items(ss) ==
    IF \A i \in 1..Len(ss) : ss[i].title # OWNERSHIP_TITLE
    THEN Err("no Ownership and team asks section found", <<>>)
    ELSE LET ownership_index == CHOOSE k \in 1..Len(ss) :
                                    /\ ss[k].title = OWNERSHIP_TITLE
                                    /\ \A j \in 1..(k - 1) : ss[j].title # OWNERSHIP_TITLE
             level == ss[ownership_index].level
             main  == goal_plan(None, ss[ownership_index])
         IN  IF IsErr(main) THEN main
             ELSE LET goal_plans ==
                          subsection_plans(ss, ownership_index + 1, level,
                              IF main.val.some THEN <<main.val.val>> ELSE <<>>)
                  IN  IF IsErr(goal_plans) THEN goal_plans
                      ELSE IF goal_plans.val = <<>>
                           THEN Err("no goal table items found", <<>>)
                           ELSE goal_plans

(***************************************************************************)
(* The documents extract_plan_items is applied to: at most MaxSections     *)
(* sections, each titled as the plan section or otherwise, at one of three *)
(* levels, with no table, a plan table, a table with another header or two *)
(* tables.                                                                 *)
(***************************************************************************)
MaxSections ==
    3

SUBGOAL_TITLE ==
    <<"S","u","b">>

IMPLEMENTATION ==
    <<"I","m","p","l","e","m","e","n","t","a","t","i","o","n">>

TeamAskRow ==
    <<STANDARD_REVIEWS, <<"!","[","T","e","a","m","]"," ","l","a","n","g">>, <<>>>>

OwnerRow ==
    <<IMPLEMENTATION, <<"@","a","l",","," ","b","o">>, <<"!","[","C","o","m","p","l","e","t","e","]">>>>

PlanHeader ==
    <<TASK_HEADER, OWNERS_HEADER, NOTES_HEADER>>

PlanTable(rows) ==
    Table(PlanHeader, rows, NoSpan)

SectionTables ==
    { <<>>,
      <<PlanTable(<<TeamAskRow, OwnerRow>>)>>,
      <<PlanTable(<<>>)>>,
      <<Table(<<TASK_HEADER, OWNERS_HEADER>>, <<OwnerRow>>, NoSpan)>>,
      <<PlanTable(<<TeamAskRow>>), PlanTable(<<OwnerRow>>)>> }

PlanSections ==
    {Section(level, title, <<>>, tables) :
        level \in {1, 2, 3},
        title \in {OWNERSHIP_TITLE, SUBGOAL_TITLE},
        tables \in SectionTables}

InitPlan ==
    /\ sections \in SeqsUpTo(PlanSections, MaxSections)
    /\ extracted = Called("none", Pending)
    /\ StatusIdle /\ ItemIdle /\ DirIdle /\ FileIdle

\* a call of extract_plan_items(&sections)
CallExtractPlanItems ==
    /\ extracted.method = "none"
    /\ extracted' = Called("extract_plan_items", extract_plan_items(sections))
    /\ UNCHANGED <<value, status, plan_item, returned, sections, visited,
                   goal_documents, dir_result, file, documents, original, linked>>

NextPlan ==
    CallExtractPlanItems

SpecPlan ==
    InitPlan /\ [][NextPlan]_vars

(***************************************************************************)
(* GoalDocument (lines 16-40, 84-168, 480-486, 647-684)                    *)
(***************************************************************************)
\* the keys of Configuration::get().team_asks (crate::config)
RecognizedAsks ==
    {STANDARD_REVIEWS, <<"D","i","s","c","u","s","s","i","o","n"," ","a","n","d"," ","m","o","r","a","l"," ","s","u","p","p","o","r","t">>}

TeamAsk(link_path, ask_description, goal_titles, teams, owners, notes) ==
    [link_path |-> link_path, ask_description |-> ask_description,
     goal_titles |-> goal_titles, teams |-> teams, owners |-> owners,
     notes |-> notes]

GoalDocument(path, link_path, metadata, summary, goal_plans, owners, asks) ==
    [path |-> path, link_path |-> link_path, metadata |-> metadata,
     summary |-> summary, goal_plans |-> goal_plans, task_owners |-> owners,
     team_asks |-> asks]

\* extract_summary
extract_summary(ss) ==
    IF \E i \in 1..Len(ss) : ss[i].title = SUMMARY_TITLE
    THEN LET i == CHOOSE k \in 1..Len(ss) :
                     /\ ss[k].title = SUMMARY_TITLE
                     /\ \A j \in 1..(k - 1) : ss[j].title # SUMMARY_TITLE
         IN  Ok(Some(trim(ss[i].text)))
    ELSE Ok(None)

\* PlanItem::team_asks without the look-up of lines 658-672
team_asks_of_any_text(item, link_path, goal_titles, goal_owners) ==
    LET teams == teams_being_asked(item)
    IN  IF IsErr(teams) THEN teams
        ELSE IF teams.val # <<>>
             THEN Ok(<<TeamAsk(link_path, item.text, goal_titles,
                               teams.val, goal_owners, item.notes)>>)
             ELSE Ok(<<>>)

\* PlanItem::team_asks
team_asks(item, link_path, goal_titles, goal_owners) ==
    LET teams == teams_being_asked(item)
    IN  IF IsErr(teams) THEN teams
        ELSE IF teams.val # <<>>
             THEN IF item.text \notin RecognizedAsks
                  THEN Err("unrecognized team ask", item.text)
                  ELSE Ok(<<TeamAsk(link_path, item.text, goal_titles,
                                    teams.val, goal_owners, item.notes)>>)
             ELSE Ok(<<>>)

\* the loop of lines 143-145 from item i on, asks collected so far
RECURSIVE asks_of_items(_, _, _, _, _, _)
asks_of_items(items, i, link_path, goal_titles, goal_owners, asks) ==
    IF i > Len(items) THEN Ok(asks)
    ELSE LET more == team_asks(items[i], link_path, goal_titles, goal_owners)
         IN  IF IsErr(more) THEN more
             ELSE asks_of_items(items, i + 1, link_path, goal_titles,
                                goal_owners, asks \o more.val)

\* the loop of lines 138-146 from plan k on, asks collected so far
RECURSIVE asks_of_plans(_, _, _, _, _)
asks_of_plans(goal_plans, k, metadata, link_path, asks) ==
    IF k > Len(goal_plans) THEN Ok(asks)
    ELSE LET goal_titles ==
                 IF goal_plans[k].subgoal.some
                 THEN <<metadata.short_title, goal_plans[k].subgoal.val>>
                 ELSE <<metadata.short_title>>
             more == asks_of_items(goal_plans[k].plan_items, 1, link_path,
                                   goal_titles, metadata.pocs, asks)
         IN  IF IsErr(more) THEN more
             ELSE asks_of_plans(goal_plans, k + 1, metadata, link_path, more.val)

\* lines 153-157: the owners of the tasks that are no team asks
task_owners_of(goal_plans) ==
    UNION {UNION {{task_owners(goal_plans[k].plan_items[i])[n] :
                      n \in 1..Len(task_owners(goal_plans[k].plan_items[i]))} :
                  i \in 1..Len(goal_plans[k].plan_items)} :
           k \in 1..Len(goal_plans)}

\* lines 127-167 of GoalDocument::load; enforce says whether the check of
\* lines 148-151 is made
load_with(path, link_path, ss, metadata, enforce) ==
    LET summary    == extract_summary(ss)
        goal_plans == IF is_not_not_accepted(metadata.status)
                      THEN extract_plan_items(ss)
                      ELSE Ok(<<>>)
    IN  IF IsErr(goal_plans) THEN goal_plans
        ELSE LET asks == asks_of_plans(goal_plans.val, 1, metadata, link_path, <<>>)
             IN  IF IsErr(asks) THEN asks
                 ELSE IF /\ enforce
                         /\ is_not_not_accepted(metadata.status)
                         /\ asks.val = <<>>
                 THEN Err("no team asks in goal", <<>>)
                 ELSE Ok(Some(GoalDocument(path, link_path, metadata,
                         IF summary.val.some THEN summary.val.val
                         ELSE metadata.title,
                         goal_plans.val, task_owners_of(goal_plans.val),
                         asks.val)))

\* GoalDocument::load without the check of lines 148-151
load_unchecked(path, link_path, ss) ==
    LET metadata == extract_metadata(ss)
    IN  IF IsErr(metadata) THEN metadata
        ELSE IF ~metadata.val.some THEN Ok(None)
        ELSE load_with(path, link_path, ss, metadata.val.val, FALSE)

\* GoalDocument::load, on the sections markwaydown::parse read from path
GoalDocument_load(path, link_path, ss) ==
    LET metadata == extract_metadata(ss)
    IN  IF IsErr(metadata) THEN metadata
        ELSE IF ~metadata.val.some THEN Ok(None)
        ELSE load_with(path, link_path, ss, metadata.val.val, TRUE)

(***************************************************************************)
(* The documents GoalDocument::load is applied to: a first section with no *)
(* table or a metadata table, then nothing, or a Summary section and a     *)
(* plan section whose table has at most MaxRows rows, with or without a    *)
(* subsection; and documents whose plan section is missing or malformed.   *)
(***************************************************************************)
MaxRows ==
    2

SHORT_TITLE ==
    <<"G">>

ISSUE_7 ==
    <<"o","/","r","#","7">>

PlaceholderRows ==
    << <<TEAMS_ROW, TEAMS_WITH_ASKS_STR>>, <<TASK_OWNERS_ROW, TASK_OWNERS_STR>> >>

GoalMetadataRows ==
    {st \o <<<<POINT_OF_CONTACT_ROW, <<"@","a","l">>>>, <<STATUS_ROW, s>>>> \o ti \o PlaceholderRows :
        st \in RowChoices(SHORT_TITLE_ROW, {SHORT_TITLE}),
        s \in {ACCEPTED, PROPOSED, NOT_ACCEPTED},
        ti \in RowChoices(TRACKING_ISSUE_ROW, {ISSUE_7})}

GoalMetadataTables ==
    {Table(<<METADATA_HEADER, <<>>>>, rows, NoSpan) : rows \in GoalMetadataRows}
        \cup {Table(<<METADATA_HEADER, <<>>>>,
                    <<<<POINT_OF_CONTACT_ROW, <<"@","a","l">>>>, <<STATUS_ROW, PROPOSED>>>>,
                    NoSpan)}

GoalFirstSections ==
    {Section(1, TITLE, <<>>, tables) :
        tables \in {<<>>} \cup {<<t>> : t \in GoalMetadataTables}}
        \cup {Section(1, <<>>, <<>>, <<>>)}

PlanRows ==
    { TeamAskRow,
      OwnerRow,
      <<STANDARD_REVIEWS, <<"!","[","T","e","a","m","]"," ","r","u","s","t","c">>, <<>>>>,
      <<IMPLEMENTATION, <<"!","[","T","e","a","m","]"," ","l","i","b","s","-","a","p","i">>, <<>>>>,
      <<STANDARD_REVIEWS, <<"!","[","T","e","a","m","]">>, <<>>>>,
      <<<<"D","i","s","c","u","s","s","i","o","n"," ","a","n","d"," ","m","o","r","a","l"," ","s","u","p","p","o","r","t">>, <<"!","[","T","e","a","m","]"," ","l","a","n","g"," ","c","o","m","p","i","l","e","r">>, <<"n">>>> }

SummarySection ==
    Section(2, SUMMARY_TITLE, <<" ","S","u","m","\n">>, <<>>)

Subsections ==
    { <<>>,
      <<Section(3, SUBGOAL_TITLE, <<>>, <<PlanTable(<<TeamAskRow>>)>>)>>,
      <<Section(3, SUBGOAL_TITLE, <<>>, <<PlanTable(<<OwnerRow>>)>>)>> }

WellFormedPlans ==
    {summary \o <<Section(2, OWNERSHIP_TITLE, <<>>, <<PlanTable(rows)>>)>> \o sub :
        summary \in {<<>>, <<SummarySection>>},
        rows \in SeqsUpTo(PlanRows, MaxRows),
        sub \in Subsections}

MalformedPlans ==
    { <<>>,
      <<SummarySection>>,
      <<Section(2, OWNERSHIP_TITLE, <<>>, <<>>)>>,
      <<Section(2, OWNERSHIP_TITLE, <<>>,
                <<PlanTable(<<TeamAskRow>>), PlanTable(<<OwnerRow>>)>>)>>,
      <<Section(2, OWNERSHIP_TITLE, <<>>,
                <<Table(<<TASK_HEADER, OWNERS_HEADER>>, <<TeamAskRow>>, NoSpan)>>)>>,
      <<Section(2, OWNERSHIP_TITLE, <<>>, <<>>),
        Section(2, SUBGOAL_TITLE, <<>>, <<PlanTable(<<TeamAskRow>>)>>)>> }

Documents ==
    {<<>>} \cup {<<first>> \o rest :
                    first \in GoalFirstSections,
                    rest \in WellFormedPlans \cup MalformedPlans}

\* the path of the file loaded, and its path for links
PATH ==
    1

InitLoad ==
    /\ sections \in Documents
    /\ extracted = Called("none", Pending)
    /\ StatusIdle /\ ItemIdle /\ DirIdle /\ FileIdle

\* a call of GoalDocument::load(path, link_path) on a file with these sections
CallLoad ==
    /\ extracted.method = "none"
    /\ extracted' = Called("load", GoalDocument_load(PATH, PATH, sections))
    /\ UNCHANGED <<value, status, plan_item, returned, sections, visited,
                   goal_documents, dir_result, file, documents, original, linked>>

NextLoad ==
    CallLoad

SpecLoad ==
    InitLoad /\ [][NextLoad]_vars

(***************************************************************************)
(* goals_in_dir (lines 106-117), one file of the directory at a time. The  *)
(* directory holds at most MaxFiles markdown files; the path of a file is  *)
(* its number in the order of markdown_files.                              *)
(***************************************************************************)
MaxFiles ==
    2

DirDocuments ==
    {<<>>} \cup {<<first>> \o rest :
                    first \in GoalFirstSections,
                    rest \in MalformedPlans \cup
                             {<<Section(2, OWNERSHIP_TITLE, <<>>,
                                        <<PlanTable(<<TeamAskRow, OwnerRow>>)>>)>>}}

\* .with_context(|| format!("loading goal from `{}`", path.display()))
with_context(r, path) ==
    [state |-> "err", msg |-> r.msg, arg |-> r.arg, context |-> path]

Init ==
    /\ visited = 0
    /\ goal_documents = <<>>
    /\ dir_result = Pending
    /\ sections = <<>>
    /\ extracted = Called("none", Pending)
    /\ StatusIdle /\ ItemIdle /\ FileIdle

\* one turn of the loop of lines 109-115: the next file has these sections
VisitFile(ss) ==
    /\ IsPending(dir_result)
    /\ visited < MaxFiles
    /\ LET path == visited + 1
           r    == GoalDocument_load(path, path, ss)
       IN  /\ visited' = path
           /\ sections' = ss
           /\ extracted' = Called("load", r)
           /\ dir_result' = IF IsErr(r) THEN with_context(r, path) ELSE dir_result
           /\ goal_documents' = IF IsOk(r) /\ r.val.some
                                THEN Append(goal_documents, r.val.val)
                                ELSE goal_documents
    /\ UNCHANGED <<value, status, plan_item, returned, file, documents, original, linked>>

\* line 116: the directory has no more files
ReturnGoals ==
    /\ IsPending(dir_result)
    /\ dir_result' = Ok(goal_documents)
    /\ UNCHANGED <<value, status, plan_item, returned, sections, extracted,
                   visited, goal_documents, file, documents,
                   original, linked>>

Next ==
    \/ \E ss \in DirDocuments : VisitFile(ss)
    \/ ReturnGoals

Spec ==
    Init /\ [][Next]_vars

(***************************************************************************)
(* markwaydown: the sections and tables of a file's bytes, and the text of *)
(* a table. A line starting with "#" opens a section; a run of lines       *)
(* starting with "|" is a table (header, dash row, rows); the span of a    *)
(* table is the range of bytes of its lines.                               *)
(***************************************************************************)
\* the position of the first newline of bytes at or after i, or Len + 1
NextNewline(bytes, i) ==
    IF \E j \in i..Len(bytes) : bytes[j] = "\n"
    THEN CHOOSE j \in i..Len(bytes) :
             /\ bytes[j] = "\n"
             /\ \A k \in i..(j - 1) : bytes[k] # "\n"
    ELSE Len(bytes) + 1

\* str::lines from position i on: each line with the range of its bytes
RECURSIVE LinesFrom(_, _)
LinesFrom(bytes, i) ==
    IF i > Len(bytes) THEN <<>>
    ELSE LET j == NextNewline(bytes, i)
         IN  <<[start |-> i,
                end   |-> IF j > Len(bytes) THEN Len(bytes) ELSE j,
                text  |-> SubSeq(bytes, i, j - 1)]>>
             \o LinesFrom(bytes, j + 1)

\* the cells of a table line
CellsOf(text) ==
    LET last   == IF text[Len(text)] = "|" /\ Len(text) > 1
                  THEN Len(text) - 1 ELSE Len(text)
        pieces == split(SubSeq(text, 2, last), {"|"})
    IN  [i \in 1..Len(pieces) |-> trim(pieces[i])]

IsDashRow(cells) ==
    \A i \in 1..Len(cells) :
        cells[i] # <<>> /\ \A k \in 1..Len(cells[i]) : cells[i][k] = "-"

\* the row with empty cells added up to n cells
PadRow(cells, n) ==
    [i \in 1..n |-> IF i <= Len(cells) THEN cells[i] ELSE <<>>]

\* the open table, if any, becomes a table of the last section
CloseTable(secs, open) ==
    IF open.some
    THEN [secs EXCEPT ![Len(secs)].tables = Append(@, open.val)]
    ELSE secs

\* markwaydown::parse from line i on: the sections so far, the open table
RECURSIVE ParseLines(_, _, _, _)
ParseLines(lines, i, secs, open) ==
    IF i > Len(lines) THEN Ok(CloseTable(secs, open))
    ELSE LET line == lines[i]
             text == line.text
         IN  IF Len(text) > 0 /\ text[1] = "#"
             THEN LET level == RunEnd(text, {"#"}, 1)
                  IN  ParseLines(lines, i + 1,
                          Append(CloseTable(secs, open),
                                 Section(level, trim(SubSeq(text, level + 1, Len(text))),
                                         <<>>, <<>>)),
                          None)
             ELSE IF Len(text) > 0 /\ text[1] = "|"
             THEN IF secs = <<>>
                  THEN Err("table outside of any section", text)
                  ELSE LET cells == CellsOf(text)
                       IN  IF ~open.some
                           THEN ParseLines(lines, i + 1, secs,
                                    Some(Table(cells, <<>>, Span(line.start, line.end))))
                           ELSE IF IsDashRow(cells)
                           THEN IF open.val.rows = <<>> /\ Len(cells) = Len(open.val.header)
                                THEN ParseLines(lines, i + 1, secs,
                                         Some([open.val EXCEPT !.span.end = line.end]))
                                ELSE Err("unexpected dash row", text)
                           ELSE IF Len(cells) > Len(open.val.header)
                           THEN Err("too many columns in table row", text)
                           ELSE ParseLines(lines, i + 1, secs,
                                    Some([open.val EXCEPT
                                             !.rows = Append(@, PadRow(cells, Len(open.val.header))),
                                             !.span.end = line.end]))
             ELSE ParseLines(lines, i + 1,
                      IF secs = <<>> THEN secs
                      ELSE [CloseTable(secs, open) EXCEPT
                               ![Len(secs)].text = @ \o text \o <<"\n">>],
                      None)

\* markwaydown::parse
parse(bytes) ==
    ParseLines(LinesFrom(bytes, 1), 1, <<>>, None)

\* one line of a table: its cells between "|"
RenderRow(cells) ==
    <<"|">> \o Concat([i \in 1..Len(cells) |-> cells[i] \o <<"|">>]) \o <<"\n">>

\* the text of a table: header, dash row, rows
RenderTable(table) ==
    RenderRow(table.header)
        \o RenderRow([i \in 1..Len(table.header) |-> <<"-">>])
        \o Concat([i \in 1..Len(table.rows) |-> RenderRow(table.rows[i])])

\* Table::add_key_value_row: the value of the first row of that key is
\* replaced, or a row is added at the end
add_key_value_row(table, key, val) ==
    IF \E i \in 1..Len(table.rows) : table.rows[i][1] = key
    THEN LET i == CHOOSE k \in 1..Len(table.rows) :
                     /\ table.rows[k][1] = key
                     /\ \A j \in 1..(k - 1) : table.rows[j][1] # key
         IN  [table EXCEPT !.rows[i][2] = val]
    ELSE [table EXCEPT !.rows = Append(@, <<key, val>>)]

\* Spanned<Table>::overwrite_in_path: the bytes of the table's span in the
\* file are replaced by the text of new_table; the result and the file
overwrite_in_path(table, bytes, new_table) ==
    IF table.span.end > Len(bytes)
    THEN [result |-> Err("span is outside of the file", <<>>), file |-> bytes]
    ELSE [result |-> Ok(<<>>),
          file   |-> SubSeq(bytes, 1, table.span.start - 1)
                         \o RenderTable(new_table)
                         \o SubSeq(bytes, table.span.end + 1, Len(bytes))]

(***************************************************************************)
(* GoalDocument::link_issue (lines 183-193) on the bytes of the file       *)
(***************************************************************************)
\* link_issue writing the table as it was parsed
link_issue_unchanged(doc, number, bytes) ==
    overwrite_in_path(doc.metadata.table, bytes, doc.metadata.table)

\* link_issue adding a row without looking for the one that is there
link_issue_pushing(doc, number, bytes) ==
    overwrite_in_path(doc.metadata.table, bytes,
        [doc.metadata.table EXCEPT
            !.rows = Append(@, <<TRACKING_ISSUE_ROW, IssueId_to_string(number)>>)])

\* GoalDocument::link_issue: the result and the bytes of the file after it
link_issue(doc, number, bytes) ==
    LET metadata_table == add_key_value_row(doc.metadata.table, TRACKING_ISSUE_ROW,
                                            IssueId_to_string(number))
    IN  overwrite_in_path(doc.metadata.table, bytes, metadata_table)

\* GoalDocument::load on the bytes of the file
load_file(bytes) ==
    LET ss == parse(bytes)
    IN  IF IsErr(ss) THEN ss ELSE GoalDocument_load(PATH, PATH, ss.val)

(***************************************************************************)
(* The files link_issue is applied to: a title, a metadata table written   *)
(* with or without blanks around its cells, and what follows the table.    *)
(* Two handles hold what GoalDocument::load returned; link_issue is called *)
(* on a loaded document, one call at a time.                               *)
(***************************************************************************)
MaxCalls ==
    2

Handles ==
    {"a", "b"}

IssueIds ==
    {IssueId(<<"o">>, <<"r">>, 8), IssueId(<<"o">>, <<"r">>, 12)}

\* a line of a table as it is written by hand, pad around each cell
WrittenRow(cells, pad) ==
    <<"|">> \o Concat([i \in 1..Len(cells) |-> pad \o cells[i] \o pad \o <<"|">>])
            \o <<"\n">>

WrittenTable(header, rows, pad) ==
    WrittenRow(header, pad)
        \o WrittenRow([i \in 1..Len(header) |-> <<"-">>], pad)
        \o Concat([i \in 1..Len(rows) |-> WrittenRow(rows[i], pad)])

WrittenTitle ==
    <<"#", " ">> \o TITLE \o <<"\n">>

WrittenPlan ==
    <<"\n", "#", "#", " ">> \o OWNERSHIP_TITLE \o <<"\n">>
        \o WrittenTable(PlanHeader, <<TeamAskRow>>, <<>>)

WrittenMetadataRows ==
    {<<<<POINT_OF_CONTACT_ROW, <<"@","a","l">>>>, <<STATUS_ROW, s>>>> \o ti \o PlaceholderRows :
        s \in {PROPOSED, NOT_ACCEPTED},
        ti \in RowChoices(TRACKING_ISSUE_ROW, {<<>>, ISSUE_7})}

Files ==
    {WrittenTitle \o WrittenTable(<<METADATA_HEADER, <<>>>>, rows, pad) \o rest :
        rows \in WrittenMetadataRows,
        pad \in {<<>>, <<" ">>},
        rest \in {<<>>, <<"\n", "e", "n", "d", "\n">>, WrittenPlan}}

InitLink ==
    /\ file \in Files
    /\ original = file
    /\ documents = [h \in Handles |-> [result |-> Pending, parsed_after |-> 0]]
    /\ linked = <<>>
    /\ StatusIdle /\ ItemIdle /\ ExtractIdle /\ DirIdle

\* the document in memory is what loading the file now returns
IsCurrent(doc, bytes) ==
    load_file(bytes) = Ok(Some(doc))

\* GoalDocument::load(path, link_path), its result kept under handle h
LoadDocument(h) ==
    /\ documents' = [documents EXCEPT ![h] = [result       |-> load_file(file),
                                              parsed_after |-> Len(linked)]]
    /\ UNCHANGED <<value, status, plan_item, returned, sections, extracted, visited,
                   goal_documents, dir_result, file, original, linked>>

\* the document under handle h .link_issue(number)
LinkIssue(h, number) ==
    /\ Len(linked) < MaxCalls
    /\ IsOk(documents[h].result)
    /\ documents[h].result.val.some
    /\ LET doc == documents[h].result.val.val
           out == link_issue(doc, number, file)
       IN  /\ file' = out.file
           /\ linked' = Append(linked,
                               [number       |-> number,
                                result       |-> out.result,
                                before       |-> file,
                                span         |-> doc.metadata.table.span,
                                current      |-> IsCurrent(doc, file),
                                parsed_after |-> documents[h].parsed_after])
    /\ UNCHANGED <<value, status, plan_item, returned, sections, extracted, visited,
                   goal_documents, dir_result, documents, original>>

NextLink ==
    \/ \E h \in Handles : LoadDocument(h)
    \/ \E h \in Handles, number \in IssueIds : LinkIssue(h, number)

SpecLink ==
    InitLink /\ [][NextLink]_vars

(***************************************************************************)
(* CLAIMS                                                                  *)
(***************************************************************************)

\* The documented (label, acceptance, is_flagship, is_invited) combinations.
DocumentedStatus ==
    { <<FLAGSHIP, "Accepted", TRUE, FALSE>>,
      <<ACCEPTED, "Accepted", FALSE, FALSE>>,
      <<INVITED, "Accepted", FALSE, TRUE>>,
      <<PROPOSED, "Proposed", FALSE, FALSE>>,
      <<PROPOSED_FOR_FLAGSHIP, "Proposed", TRUE, FALSE>>,
      <<PROPOSED_FOR_MENTORSHIP, "Proposed", FALSE, TRUE>>,
      <<NOT_ACCEPTED, "NotAccepted", FALSE, FALSE>> }

\* v is label with nothing but whitespace before and after it
IsPaddedLabel(v, label) ==
    \E i \in 1..(Len(v) + 1) :
        /\ MatchesAt(v, label, i)
        /\ \A k \in 1..Len(v) : (k < i \/ k >= i + Len(label)) => v[k] \in WhiteSpace

\* C9 (as amended): a string that is one of the seven labels, possibly with
\* whitespace before and after it, parses to exactly the documented
\* (acceptance, is_flagship, is_invited) of that label; every other string,
\* a label in another letter case included, fails with the
\* unrecognized-status error.
C9_StatusOfLabel ==
    ~IsPending(status) =>
        /\ \A d \in DocumentedStatus :
              IsPaddedLabel(value, d[1]) =>
                  /\ IsOk(status)
                  /\ status.val = Status(d[3], d[2], d[4])
        /\ (\A d \in DocumentedStatus : ~IsPaddedLabel(value, d[1])) =>
              /\ IsErr(status)
              /\ status.msg = "unrecognized status"

\* C9 witness: a label with whitespace around it has been parsed.
C9_Witness ==
    /\ IsOk(status)
    /\ Len(value) > Len(PROPOSED_FOR_MENTORSHIP)
    /\ status.val = Status(FALSE, "Proposed", TRUE)

\* C9 as stated: each of the seven labels parses to its documented
\* combination and any other string fails.
C9_Original ==
    ~IsPending(status) =>
        /\ \A d \in DocumentedStatus :
              value = d[1] => IsOk(status) /\ status.val = Status(d[3], d[2], d[4])
        /\ (\A d \in DocumentedStatus : value # d[1]) => IsErr(status)


\* the positions of s at which a maximal run of characters of class begins
RunStarts(s, class) ==
    {i \in 1..Len(s) : s[i] \in class /\ (i = 1 \/ s[i - 1] \notin class)}

\* the maximal run of characters of class that begins at position i of s
RunFrom(s, class, i) ==
    LET j == CHOOSE e \in i..Len(s) :
                 /\ \A k \in i..e : s[k] \in class
                 /\ (e = Len(s) \/ s[e + 1] \notin class)
    IN  SubSeq(s, i, j)

\* the maximal runs of characters of class in s, from left to right
WordsOf(s, class) ==
    LET starts == RunStarts(s, class)
        nth(n) == CHOOSE i \in starts : Cardinality({j \in starts : j < i}) = n - 1
    IN  [n \in 1..Cardinality(starts) |-> RunFrom(s, class, nth(n))]

\* What teams_being_asked returned, when the word-like tokens of the owners
\* text are the maximal runs of characters of class.
TeamsAskedAre(class) ==
    returned.method = "teams_being_asked" =>
        LET r     == returned.result
            names == SelectSeq(WordsOf(plan_item.owners, class),
                               LAMBDA w : w # TEAM_TOKEN)
        IN  IF ~contains(plan_item.owners, TEAM_MARKER)
            THEN IsOk(r) /\ r.val = <<>>
            ELSE IF names = <<>>
                 THEN IsErr(r) /\ r.msg = "team ask does not list any teams"
                 ELSE IF \E i \in 1..Len(names) : names[i] \notin TeamRegistry
                      THEN IsErr(r) /\ r.msg = "no Rust team named"
                      ELSE IsOk(r) /\ r.val = names

\* C6 (as amended): for owners text containing `![Team]`, teams_being_asked
\* takes the maximal tokens made of letters, '-' and '.' (a digit ends a
\* token), drops the token `Team` and resolves the rest in order: it returns
\* exactly the teams named, fails if a token is no registered team, fails if
\* no token remains; without `![Team]` it returns the empty list.
C6_TeamsBeingAsked ==
    TeamsAskedAre(UpperCase \cup LowerCase \cup {"-", "."})

\* C6 witness: a team ask whose owners text holds a digit resolved to teams.
C6_Witness ==
    /\ returned.method = "teams_being_asked"
    /\ IsOk(returned.result)
    /\ returned.result.val # <<>>
    /\ \E k \in 1..Len(plan_item.owners) : plan_item.owners[k] \in Digit

\* C6 as stated: the tokens are made of letters, digits, '-' and '.'.
C6_Original ==
    TeamsAskedAre(UpperCase \cup LowerCase \cup Digit \cup {"-", "."})

\* h is the first `@name` handle in word w: an "@" followed by the longest
\* run of letters, digits and '-', with no such handle starting before it
IsFirstHandle(w, h) ==
    \E i \in 1..Len(w) :
        /\ Len(h) >= 2
        /\ MatchesAt(w, h, i)
        /\ h[1] = "@"
        /\ \A k \in 2..Len(h) : h[k] \in UsernameChars
        /\ (i + Len(h) > Len(w) \/ w[i + Len(h)] \notin UsernameChars)
        /\ \A j \in 1..(i - 1) : ~(w[j] = "@" /\ w[j + 1] \in UsernameChars)

HasHandle(w) ==
    \E i \in 1..(Len(w) - 1) : w[i] = "@" /\ w[i + 1] \in UsernameChars

AllChars ==
    UpperCase \cup LowerCase \cup Digit \cup WhiteSpace
        \cup {"!", "[", "]", "@", ",", ".", "-", "#", "/", "|", "(", ")", "<", ">"}

\* What parse_owners returned for empty owners text and for a team ask.
ParseOwnersOfTeamAsk ==
    LET r == returned.result
    IN  /\ plan_item.owners = <<>> => r = Ok(None)
        /\ plan_item.owners # <<>> /\ contains(plan_item.owners, TEAM_MARKER) =>
              LET teams == teams_being_asked(plan_item)
              IN  IF IsErr(teams) THEN r = teams
                  ELSE IsOk(r) /\ r.val = Some(TeamAsks(teams.val))

\* C7 (as amended): parse_owners returns no owners when the owners text is
\* empty, the team list of teams_being_asked when the item is a team ask,
\* and otherwise the `@name` handles of the owners text: for each
\* whitespace-separated word that holds one, the first handle in it, in
\* order. Each of them lies within an entry of task_owners, but the two
\* lists are not the same in general.
C7_ParseOwners ==
    returned.method = "parse_owners" =>
        /\ ParseOwnersOfTeamAsk
        /\ plan_item.owners # <<>> /\ ~contains(plan_item.owners, TEAM_MARKER) =>
              LET r     == returned.result
                  words == SelectSeq(WordsOf(plan_item.owners, AllChars \ WhiteSpace),
                                     HasHandle)
              IN  /\ IsOk(r) /\ r.val.some /\ r.val.val.kind = "Usernames"
                  /\ Len(r.val.val.list) = Len(words)
                  /\ \A i \in 1..Len(words) : IsFirstHandle(words[i], r.val.val.list[i])
                  /\ \A i \in 1..Len(words) :
                        \E j \in 1..Len(task_owners(plan_item)) :
                            contains(task_owners(plan_item)[j], r.val.val.list[i])

\* C7 witness: parse_owners found handles in owners text that is no team
\* ask, and they are not the comma-separated entries.
C7_Witness ==
    /\ returned.method = "parse_owners"
    /\ ~contains(plan_item.owners, TEAM_MARKER)
    /\ IsOk(returned.result)
    /\ returned.result.val.some
    /\ Len(returned.result.val.val.list) = 2
    /\ returned.result.val.val.list # task_owners(plan_item)

\* C7 as stated: for non-empty owners text that is no team ask, parse_owners
\* returns the usernames task_owners returns.
C7_Original ==
    returned.method = "parse_owners" =>
        /\ ParseOwnersOfTeamAsk
        /\ plan_item.owners # <<>> /\ ~contains(plan_item.owners, TEAM_MARKER) =>
              returned.result = Ok(Some(Usernames(task_owners(plan_item))))


\* extract_metadata has been applied to a document whose first section has
\* a title and a first table with the metadata header
MetadataTableExamined ==
    /\ extracted.method = "extract_metadata"
    /\ sections # <<>>
    /\ sections[1].title # <<>>
    /\ sections[1].tables # <<>>
    /\ sections[1].tables[1].header = <<METADATA_HEADER, <<>>>>

MetadataRowsExamined ==
    sections[1].tables[1].rows

RowMissing(key) ==
    \A i \in 1..Len(MetadataRowsExamined) : MetadataRowsExamined[i][1] # key

\* the value of the first row of that key
RowValue(key) ==
    LET rows == MetadataRowsExamined
        i    == CHOOSE k \in 1..Len(rows) :
                    rows[k][1] = key /\ \A j \in 1..(k - 1) : rows[j][1] # key
    IN  rows[i][2]

\* the Status row is one of the labels whose acceptance is Accepted
StatusRowAccepted ==
    /\ ~RowMissing(STATUS_ROW)
    /\ \E label \in {FLAGSHIP, ACCEPTED, INVITED} :
          IsPaddedLabel(RowValue(STATUS_ROW), label)

\* C1: a document whose Status row parses to acceptance Accepted fails in
\* extract_metadata when its Tracking issue row is absent and when that row
\* is empty, so that every Metadata produced with acceptance Accepted has a
\* tracking issue.
C1_AcceptedHasTrackingIssue ==
    MetadataTableExamined =>
        LET r == extracted.result
        IN  /\ StatusRowAccepted /\ RowMissing(TRACKING_ISSUE_ROW) => IsErr(r)
            /\ StatusRowAccepted /\ ~RowMissing(TRACKING_ISSUE_ROW)
                  /\ RowValue(TRACKING_ISSUE_ROW) = <<>> => IsErr(r)
            /\ IsOk(r) /\ r.val.some /\ r.val.val.status.acceptance = "Accepted"
                  => r.val.val.tracking_issue.some

RequiredRows ==
    <<POINT_OF_CONTACT_ROW, STATUS_ROW, TEAMS_ROW, TASK_OWNERS_ROW>>

SomeRequiredRowMissing ==
    \E n \in 1..Len(RequiredRows) : RowMissing(RequiredRows[n])

FirstMissingRow ==
    LET n == CHOOSE k \in 1..Len(RequiredRows) :
                 /\ RowMissing(RequiredRows[k])
                 /\ \A j \in 1..(k - 1) : ~RowMissing(RequiredRows[j])
    IN  RequiredRows[n]

\* every row that is there has a value extract_metadata accepts
PresentRowsWellFormed ==
    /\ RowMissing(POINT_OF_CONTACT_ROW)
          \/ is_just_USERNAME(trim(RowValue(POINT_OF_CONTACT_ROW)))
    /\ RowMissing(STATUS_ROW)
          \/ \E label \in Labels : IsPaddedLabel(RowValue(STATUS_ROW), label)
    /\ RowMissing(TRACKING_ISSUE_ROW)
          \/ IsOk(IssueId_parse(RowValue(TRACKING_ISSUE_ROW)))
    /\ RowMissing(TEAMS_ROW) \/ RowValue(TEAMS_ROW) = TEAMS_WITH_ASKS_STR
    /\ RowMissing(TASK_OWNERS_ROW) \/ RowValue(TASK_OWNERS_ROW) = TASK_OWNERS_STR

PlaceholderRowWrong ==
    \/ ~RowMissing(TEAMS_ROW) /\ RowValue(TEAMS_ROW) # TEAMS_WITH_ASKS_STR
    \/ ~RowMissing(TASK_OWNERS_ROW) /\ RowValue(TASK_OWNERS_ROW) # TASK_OWNERS_STR

NamesMissingRow(r, key) ==
    IsErr(r) /\ r.msg = "metadata table has no row" /\ r.arg = key

\* C8 (as amended): for a metadata table with the correct header,
\* extract_metadata fails whenever one of the rows Point of contact, Status,
\* Teams, Task owners is missing and whenever the Teams or Task owners row
\* has a value other than its placeholder. The error is that of the first
\* check to fail: it names the Point of contact row whenever that row is
\* missing; it names the first missing row (in the order above) when every
\* row that is present is well-formed; a missing-row error always names a
\* row that is missing. When something else is wrong too, the error may be
\* about that instead of the missing row.
C8_MissingRowFails ==
    MetadataTableExamined =>
        LET r == extracted.result
        IN  /\ SomeRequiredRowMissing => IsErr(r)
            /\ PlaceholderRowWrong => IsErr(r)
            /\ RowMissing(POINT_OF_CONTACT_ROW) => NamesMissingRow(r, POINT_OF_CONTACT_ROW)
            /\ SomeRequiredRowMissing /\ PresentRowsWellFormed
                  => NamesMissingRow(r, FirstMissingRow)
            /\ IsErr(r) /\ r.msg = "metadata table has no row"
                  => /\ \E n \in 1..Len(RequiredRows) : r.arg = RequiredRows[n]
                     /\ RowMissing(r.arg)

\* C8 witness: the Teams row is missing and the Status value is no label;
\* the error is about the status.
C8_Witness ==
    /\ MetadataTableExamined
    /\ RowMissing(TEAMS_ROW)
    /\ ~RowMissing(TASK_OWNERS_ROW)
    /\ IsErr(extracted.result)
    /\ extracted.result.msg = "unrecognized status"

\* C8 as stated: whenever one of the four rows is missing the error names
\* that row, whatever else is wrong with the table.
C8_Original ==
    MetadataTableExamined =>
        LET r == extracted.result
        IN  /\ \A n \in 1..Len(RequiredRows) :
                  RowMissing(RequiredRows[n]) => NamesMissingRow(r, RequiredRows[n])
            /\ PlaceholderRowWrong => IsErr(r)


\* the first section titled `Ownership and team asks`
OwnershipIndex ==
    CHOOSE k \in 1..Len(sections) :
        /\ sections[k].title = OWNERSHIP_TITLE
        /\ \A j \in 1..(k - 1) : sections[j].title # OWNERSHIP_TITLE

\* that section and the run of strictly deeper sections right after it
ConsideredSections ==
    {OwnershipIndex} \cup
    {i \in (OwnershipIndex + 1)..Len(sections) :
        \A k \in (OwnershipIndex + 1)..i :
            sections[k].level > sections[OwnershipIndex].level}

\* the plan of considered section i, which has exactly one table
PlanOfSection(i) ==
    GoalPlan(IF i = OwnershipIndex THEN None ELSE Some(sections[i].title),
             [n \in 1..Len(sections[i].tables[1].rows) |->
                 LET row == sections[i].tables[1].rows[n]
                 IN  PlanItem(row[1], row[2], row[3])])

\* the plans of the considered sections with one table, in section order
ExpectedPlans ==
    LET with == {i \in ConsideredSections : Len(sections[i].tables) = 1}
        nth(n) == CHOOSE i \in with : Cardinality({j \in with : j < i}) = n - 1
    IN  [n \in 1..Cardinality(with) |-> PlanOfSection(nth(n))]

\* C10: extract_plan_items considers the first section titled `Ownership
\* and team asks` and the maximal run of strictly deeper sections right
\* after it. It fails if there is no such section, if a considered section
\* has more than one table, if a considered single table has another header
\* than [Task, Owner(s) or team(s), Notes], or if no considered section has
\* a table; otherwise it returns, in section order, one GoalPlan per
\* considered section with exactly one table (no subgoal for the main
\* section, the section title for a subsection) holding the rows in order.
C10_PlanSections ==
    extracted.method = "extract_plan_items" =>
        LET r == extracted.result
        IN  IF \A i \in 1..Len(sections) : sections[i].title # OWNERSHIP_TITLE
            THEN IsErr(r)
            ELSE IF \/ \E i \in ConsideredSections : Len(sections[i].tables) > 1
                    \/ \E i \in ConsideredSections :
                          /\ Len(sections[i].tables) = 1
                          /\ sections[i].tables[1].header # PlanHeader
                    \/ \A i \in ConsideredSections : sections[i].tables = <<>>
                 THEN IsErr(r)
                 ELSE IsOk(r) /\ r.val = ExpectedPlans

\* C10 witness: a plan was returned, and a deeper section with a table that
\* comes after the end of the run was left out.
C10_Witness ==
    /\ extracted.method = "extract_plan_items"
    /\ IsOk(extracted.result)
    /\ \E i \in 1..Len(sections) :
          /\ i > OwnershipIndex
          /\ i \notin ConsideredSections
          /\ sections[i].level > sections[OwnershipIndex].level
          /\ Len(sections[i].tables) = 1
    /\ Len(extracted.result.val) = 1


\* no row of any table of the sections after the first asks a team
NoTeamAskingRow ==
    \A i \in 2..Len(sections) :
        \A t \in 1..Len(sections[i].tables) :
            \A n \in 1..Len(sections[i].tables[t].rows) :
                ~contains(sections[i].tables[t].rows[n][2], TEAM_MARKER)

\* the first table of the document has a Status row whose label is one of
\* those with acceptance Proposed or Accepted
StatusRowProposedOrAccepted ==
    /\ sections # <<>>
    /\ sections[1].tables # <<>>
    /\ \E n \in 1..Len(sections[1].tables[1].rows) :
          /\ sections[1].tables[1].rows[n][1] = STATUS_ROW
          /\ \A j \in 1..(n - 1) : sections[1].tables[1].rows[j][1] # STATUS_ROW
          /\ \E label \in Labels \ {NOT_ACCEPTED} :
                IsPaddedLabel(sections[1].tables[1].rows[n][2], label)

\* C2: every GoalDocument that GoalDocument::load returns with acceptance
\* Proposed or Accepted has at least one team ask, and a document with such
\* a status whose plan tables have no row asking a team is rejected with an
\* error.
C2_TeamAsksNonEmpty ==
    extracted.method = "load" =>
        LET r == extracted.result
        IN  /\ IsOk(r) /\ r.val.some
                  /\ r.val.val.metadata.status.acceptance \in {"Proposed", "Accepted"}
                  => r.val.val.team_asks # <<>>
            /\ StatusRowProposedOrAccepted /\ NoTeamAskingRow => IsErr(r)

\* C2 witness: a goal with acceptance Accepted was loaded, and it asks a team.
C2_Witness ==
    /\ extracted.method = "load"
    /\ IsOk(extracted.result)
    /\ extracted.result.val.some
    /\ extracted.result.val.val.metadata.status.acceptance = "Accepted"
    /\ Len(extracted.result.val.val.team_asks) >= 1
    /\ extracted.result.val.val.task_owners # {}


\* goals_in_dir has just loaded a file
FileLoaded ==
    visited >= 1 /\ extracted.method = "load"

\* the file just loaded has a titled first section without a table
NotAGoalDocument ==
    /\ sections # <<>>
    /\ sections[1].title # <<>>
    /\ sections[1].tables = <<>>

\* C5: a document whose first section has a title and no table is no goal
\* document: extract_metadata returns Ok(None), GoalDocument::load returns
\* None whatever the other sections are, and goals_in_dir leaves it out of
\* its result without failing; an empty section list and an empty first
\* title are errors even without a table.
C5_NotAGoalDocument ==
    FileLoaded =>
        /\ NotAGoalDocument =>
              /\ extract_metadata(sections) = Ok(None)
              /\ extracted.result = Ok(None)
              /\ ~IsErr(dir_result)
              /\ \A k \in 1..Len(goal_documents) : goal_documents[k].path # visited
              /\ IsOk(dir_result) =>
                    \A k \in 1..Len(dir_result.val) : dir_result.val[k].path # visited
        /\ sections = <<>> =>
              /\ IsErr(extracted.result)
              /\ extracted.result.msg = "no markdown sections found in input"
              /\ IsErr(dir_result)
        /\ sections # <<>> /\ sections[1].title = <<>> =>
              /\ IsErr(extracted.result)
              /\ extracted.result.msg = "first section has no title"
              /\ IsErr(dir_result)

\* C5 witness: goals_in_dir returned the goal of the first file and left
\* out the second, which has no metadata table and a malformed plan section.
C5_Witness ==
    /\ FileLoaded
    /\ visited = 2
    /\ NotAGoalDocument
    /\ Len(sections) = 2
    /\ Len(sections[2].tables) = 2
    /\ IsOk(dir_result)
    /\ Len(dir_result.val) = 1
    /\ dir_result.val[1].path = 1


(***************************************************************************)
(* C3, C4: link_issue and the file                                         *)
(***************************************************************************)
LastCall ==
    linked[Len(linked)]

\* what loading the file as it is now returns
Reloaded ==
    load_file(file)

ReloadedTrackingIssue(number) ==
    /\ IsOk(Reloaded)
    /\ Reloaded.val.some
    /\ Reloaded.val.val.metadata.tracking_issue = Some(number)

\* the bytes before position start and the bytes after position end of
\* `before` are the bytes before and after the rewritten range of `after`
SameOutside(before, after, span) ==
    LET tail == Len(before) - span.end
    IN  /\ Len(after) >= (span.start - 1) + tail
        /\ SubSeq(after, 1, span.start - 1) = SubSeq(before, 1, span.start - 1)
        /\ SubSeq(after, Len(after) - tail + 1, Len(after))
               = SubSeq(before, span.end + 1, Len(before))

\* the span of the metadata table of a file, if it has one
MetadataSpan(bytes) ==
    LET ss == parse(bytes)
    IN  IF IsOk(ss) /\ ss.val # <<>> /\ ss.val[1].tables # <<>>
        THEN Some(ss.val[1].tables[1].span)
        ELSE None

\* the content before and after the metadata table is that of the
\* original file
OutsideTableUnchanged ==
    LET was == MetadataSpan(original)
        is  == MetadataSpan(file)
    IN  /\ was.some /\ is.some
        /\ SubSeq(file, 1, is.val.start - 1) = SubSeq(original, 1, was.val.start - 1)
        /\ SubSeq(file, is.val.end + 1, Len(file))
               = SubSeq(original, was.val.end + 1, Len(original))

\* C3: link_issue on a GoalDocument leaves every byte of the file outside
\* the span recorded for its metadata table as it was before the call; and
\* when the GoalDocument is what loading the file returned (the file has
\* not been rewritten since), loading the file again after the call gives a
\* document whose tracking_issue is Some of the linked id.
C3_LinkThenReload ==
    Len(linked) > 0
        => /\ IsOk(LastCall.result)
               => SameOutside(LastCall.before, file, LastCall.span)
           /\ LastCall.current
               => /\ IsOk(LastCall.result)
                  /\ ReloadedTrackingIssue(LastCall.number)

\* a second call, from a document loaded after the first, that replaces
\* the row of the first by one of another length, in a file with content
\* after the table
C3_Witness ==
    /\ Len(linked) = 2
    /\ LastCall.current
    /\ linked[1].number # LastCall.number
    /\ ~ReloadedTrackingIssue(linked[1].number)
    /\ MetadataSpan(original).val.end < Len(original)
    /\ MetadataSpan(file).val.end - MetadataSpan(file).val.start
           # LastCall.span.end - LastCall.span.start

AllCalls(current_only) ==
    /\ Len(linked) > 0
    /\ \A i \in 1..Len(linked) :
           /\ IsOk(linked[i].result)
           /\ IF current_only THEN linked[i].current
              ELSE linked[i].parsed_after = 0

\* C4: after any sequence of link_issue calls on the file, one at a time,
\* each made from a GoalDocument that is what loading the file returns at
\* the time of the call, the metadata table of the file carries the
\* tracking issue of the last call and the content outside the table is
\* that of the original file.
C4_SerializedCalls ==
    AllCalls(TRUE)
        => /\ ReloadedTrackingIssue(LastCall.number)
           /\ OutsideTableUnchanged

\* two calls, the second from a document loaded after the first
C4_Witness ==
    /\ Len(linked) = 2
    /\ AllCalls(TRUE)
    /\ LastCall.parsed_after = 1
    /\ linked[1].number # LastCall.number
    /\ file # linked[1].before
    /\ file # LastCall.before

\* C4 as stated: the same after any sequence of calls made from
\* GoalDocuments that were parsed before the first call.
C4_Original ==
    AllCalls(FALSE)
        => /\ ReloadedTrackingIssue(LastCall.number)
           /\ OutsideTableUnchanged


(***************************************************************************)
(* C11: the team asks of a loaded document                                 *)
(***************************************************************************)
\* the places <<k, i>> of the items of goal_plans whose owners contain
\* `![Team]`, plans in order and rows in order, from item i of plan k on
RECURSIVE TeamItemsFrom(_, _, _)
TeamItemsFrom(goal_plans, k, i) ==
    IF k > Len(goal_plans) THEN <<>>
    ELSE IF i > Len(goal_plans[k].plan_items) THEN TeamItemsFrom(goal_plans, k + 1, 1)
    ELSE (IF contains(goal_plans[k].plan_items[i].owners, TEAM_MARKER)
          THEN << <<k, i>> >> ELSE <<>>)
             \o TeamItemsFrom(goal_plans, k, i + 1)

\* the ask is the one the claim describes for item at[2] of plan at[1]
AskOfItem(ask, doc, at) ==
    LET plan == doc.goal_plans[at[1]]
        item == plan.plan_items[at[2]]
    IN  /\ ask.ask_description = item.text
        /\ item.text \in RecognizedAsks
        /\ ask.goal_titles = IF plan.subgoal.some
                             THEN <<doc.metadata.short_title, plan.subgoal.val>>
                             ELSE <<doc.metadata.short_title>>
        /\ ask.owners = doc.metadata.pocs
        /\ ask.notes = item.notes

\* the metadata of the document is valid with an acceptance other than
\* NotAccepted and its plan items are extracted
PlanItemsExtracted ==
    LET metadata == extract_metadata(sections)
    IN  /\ IsOk(metadata)
        /\ metadata.val.some
        /\ metadata.val.val.status.acceptance # "NotAccepted"
        /\ IsOk(extract_plan_items(sections))

\* the texts of the extracted plan items that ask a team (team_items) or
\* that do not
ItemTexts(team_items) ==
    LET goal_plans == extract_plan_items(sections).val
    IN  UNION {{goal_plans[k].plan_items[i].text :
                   i \in {n \in 1..Len(goal_plans[k].plan_items) :
                            contains(goal_plans[k].plan_items[n].owners, TEAM_MARKER)
                                = team_items}} :
               k \in 1..Len(goal_plans)}

\* C11: the team_asks of every GoalDocument that load returns are one
\* TeamAsk per plan item whose owners contain `![Team]`, in the order of the
\* goal plans and of their rows, and none for another item; each has the
\* task text of its item, which is a recognized ask, as ask_description,
\* [short_title] or [short_title, subgoal title] as goal_titles, the point
\* of contact text as owners and the notes of the item. A team-asking plan
\* item whose task text is no recognized ask makes load fail; the error for
\* an unrecognized ask is only ever about the text of a team-asking item.
C11_TeamAsks ==
    extracted.method = "load" =>
        LET r == extracted.result
        IN  /\ IsOk(r) /\ r.val.some =>
                  LET doc == r.val.val
                      at  == TeamItemsFrom(doc.goal_plans, 1, 1)
                  IN  /\ Len(doc.team_asks) = Len(at)
                      /\ \A n \in 1..Len(at) : AskOfItem(doc.team_asks[n], doc, at[n])
            /\ PlanItemsExtracted /\ ItemTexts(TRUE) \ RecognizedAsks # {}
                  => IsErr(r)
            /\ IsErr(r) /\ r.msg = "unrecognized team ask"
                  => PlanItemsExtracted /\ r.arg \in ItemTexts(TRUE) \ RecognizedAsks

\* C11 witness: a loaded document with an ask in its main plan and one in a
\* subgoal, and an item that asks no team whose text is no recognized ask.
C11_Witness ==
    /\ extracted.method = "load"
    /\ IsOk(extracted.result)
    /\ extracted.result.val.some
    /\ LET doc == extracted.result.val.val
       IN  /\ Len(doc.team_asks) = 2
           /\ Len(doc.team_asks[1].goal_titles) = 1
           /\ Len(doc.team_asks[2].goal_titles) = 2
           /\ doc.metadata.short_title # doc.metadata.title
           /\ TeamItemsFrom(doc.goal_plans, 1, 1) = << <<1, 2>>, <<2, 1>> >>
           /\ ItemTexts(FALSE) \ RecognizedAsks # {}


(***************************************************************************)
(* C12: goals that are not accepted                                        *)
(***************************************************************************)
\* the metadata of the document is valid and its acceptance is NotAccepted
ValidNotAccepted ==
    LET metadata == extract_metadata(sections)
    IN  /\ IsOk(metadata)
        /\ metadata.val.some
        /\ metadata.val.val.status.acceptance = "NotAccepted"

\* C12: GoalDocument::load of a document whose metadata is valid with
\* acceptance NotAccepted succeeds whatever its other sections are (no plan
\* section, a plan table with another header, two tables, teams that do not
\* exist, asks that are not recognized, or a well-formed plan), and the
\* GoalDocument has no goal plans, no team asks and no task owners.
C12_NotAcceptedSkipsPlan ==
    extracted.method = "load" /\ ValidNotAccepted =>
        LET r == extracted.result
        IN  /\ IsOk(r)
            /\ r.val.some
            /\ r.val.val.metadata.status.acceptance = "NotAccepted"
            /\ r.val.val.goal_plans = <<>>
            /\ r.val.val.team_asks = <<>>
            /\ r.val.val.task_owners = {}

\* C12 witness: a rejected goal was loaded whose plan section has two tables
C12_Witness ==
    /\ extracted.method = "load"
    /\ ValidNotAccepted
    /\ IsOk(extracted.result)
    /\ \E i \in 2..Len(sections) :
          sections[i].title = OWNERSHIP_TITLE /\ Len(sections[i].tables) = 2
    /\ IsErr(extract_plan_items(sections))

=============================================================================
